---- MODULE Spec2Model ----
(***************************************************************************)
(* Model of rusty-merkle-tree (src/src/lib.rs): MerkleTree (new, add_leaf, *)
(* formulate_proof_of_inclusion, calculate_merkle_root) and                *)
(* MerkleProof::verify.                                                    *)
(*                                                                         *)
(* SHA-256 is modelled as a collision-free symbolic hash: a digest is the  *)
(* term of what was hashed, with the domain-separation byte as its head    *)
(* (0x00 for a leaf, 0x01 for an internal node).                           *)
(***************************************************************************)
EXTENDS Integers, Sequences, FiniteSets, TLC

\* ------------------------------------------------------------------ bounds
\* Longest array handed to MerkleTree::new.
MaxInit == 3
\* Largest number of leaves a tree grows to by add_leaf.
MaxLeaves == 4
\* Longest proof an untrusted party hands to verify.
MaxProofLen == 3

\* The &str values callers pass in.
Elements == {"a", "b", "c"}

\* ------------------------------------------------------------------ hashes
\* The domain-separation prefixes of hash_leaf and hash_internal.
LeafTag == 0
InternalTag == 1

\* A leaf hash that forgets hasher.update(data).
hash_leaf_no_data(data) == <<LeafTag, "">>

hash_leaf(data) == <<LeafTag, data>>

\* An internal hash that feeds left twice and never right.
hash_internal_left_twice(left, right) == <<InternalTag, left, left>>

hash_internal(left, right) == <<InternalTag, left, right>>

\* A 32-byte value that is the hash of nothing the program ever hashed.
Junk == <<2, "junk">>

\* The panic of unreachable!() in calculate_merkle_root.
Unreachable == <<3, "unreachable">>

\* No root: there is no MerkleTree value.
NoRoot == <<4, "none">>

\* ------------------------------------------------------------ tree builder
Min(a, b) == IF a <= b THEN a ELSE b

\* leaves.chunks(2): consecutive slices of two, the last of one when odd.
chunks2(s) ==
  [k \in 1..((Len(s) + 1) \div 2) |-> SubSeq(s, 2 * k - 1, Min(2 * k, Len(s)))]

\* A next level that pairs the trailing unpaired node with itself.
calculate_next_level_self_pair(lvs) ==
  LET ch == chunks2(lvs)
  IN [k \in 1..Len(ch) |->
        IF Len(ch[k]) = 2 THEN hash_internal(ch[k][1], ch[k][2])
                          ELSE hash_internal(ch[k][1], ch[k][1])]

\* A next level that hashes every pair right operand first.
calculate_next_level_swapped(lvs) ==
  LET ch == chunks2(lvs)
  IN [k \in 1..Len(ch) |->
        IF Len(ch[k]) = 2 THEN hash_internal(ch[k][2], ch[k][1])
                          ELSE ch[k][1]]

calculate_next_level_of_tree(lvs) ==
  LET ch == chunks2(lvs)
  IN [k \in 1..Len(ch) |->
        IF Len(ch[k]) = 2 THEN hash_internal(ch[k][1], ch[k][2])
                          ELSE ch[k][1]]

RECURSIVE calculate_merkle_root(_)
calculate_merkle_root(lvs) ==
  IF Len(lvs) = 0 THEN Unreachable
  ELSE IF Len(lvs) = 1 THEN lvs[1]
  ELSE calculate_merkle_root(calculate_next_level_of_tree(lvs))

\* The loop of MerkleTree::new that hashes every element in order.
hash_all(array) == [i \in 1..Len(array) |-> hash_leaf(array[i])]

\* A constructor without the is_empty check.
new_no_empty_check(array) ==
  LET lvs == hash_all(array)
  IN <<"Ok", calculate_merkle_root(lvs), lvs>>

\* A constructor that takes the first leaf for the root.
new_root_first_leaf(array) ==
  IF Len(array) = 0 THEN <<"Err">>
  ELSE LET lvs == hash_all(array)
       IN <<"Ok", lvs[1], lvs>>

\* MerkleTree::new: <<"Err">> or <<"Ok", root, leaves>>.
new(array) ==
  IF Len(array) = 0 THEN <<"Err">>
  ELSE LET lvs == hash_all(array)
       IN <<"Ok", calculate_merkle_root(lvs), lvs>>

\* An add_leaf that computes the root before it pushes the leaf.
add_leaf_root_before_push(lvs, element) ==
  <<calculate_merkle_root(lvs), Append(lvs, hash_leaf(element))>>

\* An add_leaf that inserts the new leaf at the front.
add_leaf_at_front(lvs, element) ==
  LET pushed == <<hash_leaf(element)>> \o lvs
  IN <<calculate_merkle_root(pushed), pushed>>

\* MerkleTree::add_leaf: the new <<root, leaves>>.
add_leaf(lvs, element) ==
  LET pushed == Append(lvs, hash_leaf(element))
  IN <<calculate_merkle_root(pushed), pushed>>

\* ------------------------------------------------------------ proof engine
\* self.leaves.iter().position(|h| h == &leaf_hash): <<>> is None, <<i>> is
\* Some(i) with the 0-based index i of the first match.
position(lvs, h) ==
  IF \E i \in 1..Len(lvs) : lvs[i] = h
  THEN <<(CHOOSE i \in 1..Len(lvs) :
            lvs[i] = h /\ \A j \in 1..(i - 1) : lvs[j] # h) - 1>>
  ELSE <<>>

\* A path walk that records the sibling of an odd index as Side::Right.
RECURSIVE formulate_proof_sides_swapped(_, _, _)
formulate_proof_sides_swapped(current_level, index, elements_of_proof) ==
  IF Len(current_level) <= 1 THEN elements_of_proof
  ELSE
    LET pushed ==
          IF index % 2 = 0
          THEN IF index + 1 < Len(current_level)
               THEN Append(elements_of_proof,
                           <<current_level[index + 2], "Right">>)
               ELSE elements_of_proof
          ELSE Append(elements_of_proof, <<current_level[index], "Right">>)
    IN formulate_proof_sides_swapped(
         calculate_next_level_of_tree(current_level), index \div 2, pushed)

\* A path walk that records the unpaired trailing node as its own sibling.
RECURSIVE formulate_proof_self_pair(_, _, _)
formulate_proof_self_pair(current_level, index, elements_of_proof) ==
  IF Len(current_level) <= 1 THEN elements_of_proof
  ELSE
    LET pushed ==
          IF index % 2 = 0
          THEN IF index + 1 < Len(current_level)
               THEN Append(elements_of_proof,
                           <<current_level[index + 2], "Right">>)
               ELSE Append(elements_of_proof,
                           <<current_level[index + 1], "Right">>)
          ELSE Append(elements_of_proof, <<current_level[index], "Left">>)
    IN formulate_proof_self_pair(
         calculate_next_level_of_tree(current_level), index \div 2, pushed)

\* index is 0-based as in the source; current_level[index] of the source is
\* current_level[index + 1] here.
RECURSIVE formulate_proof_recursive(_, _, _)
formulate_proof_recursive(current_level, index, elements_of_proof) ==
  IF Len(current_level) <= 1 THEN elements_of_proof
  ELSE
    LET pushed ==
          IF index % 2 = 0
          THEN IF index + 1 < Len(current_level)
               THEN Append(elements_of_proof,
                           <<current_level[index + 2], "Right">>)
               ELSE elements_of_proof
          ELSE Append(elements_of_proof, <<current_level[index], "Left">>)
    IN formulate_proof_recursive(calculate_next_level_of_tree(current_level),
                                 index \div 2, pushed)

\* Option<MerkleProof>: <<>> is None, <<pairs>> is Some(MerkleProof{pairs}).
formulate_proof_of_inclusion(lvs, data) ==
  LET index == position(lvs, hash_leaf(data))
  IN IF index = <<>> THEN <<>>
     ELSE <<formulate_proof_recursive(lvs, index[1], <<>>)>>

\* The for loop of MerkleProof::verify from pair k on.
RECURSIVE verify_fold(_, _, _)
verify_fold(pairs, k, current_hash) ==
  IF k > Len(pairs) THEN current_hash
  ELSE verify_fold(pairs, k + 1,
         IF pairs[k][2] = "Left"
         THEN hash_internal(pairs[k][1], current_hash)
         ELSE hash_internal(current_hash, pairs[k][1]))

verify(pairs, rt, leaf) == verify_fold(pairs, 1, hash_leaf(leaf)) = rt

\* ------------------------------------------------------------------- state
VARIABLES
  result,       \* what MerkleTree::new returned: "none" before the call
  root,         \* MerkleTree.root
  leaves,       \* MerkleTree.leaves
  input,        \* the elements handed to new and add_leaf so far, in order
  proof,        \* the Option<MerkleProof> the caller holds
  proof_elem,   \* the element that proof was asked for
  proof_count,  \* leaves_count() when the proof was asked for
  verified      \* <<leaf, returned bool>> when the last call was
                \* proof.verify(tree.root(), leaf), <<>> otherwise

vars == <<result, root, leaves, input, proof, proof_elem, proof_count,
          verified>>

treeVars == <<result, root, leaves, input>>
proofVars == <<proof, proof_elem, proof_count>>

RECURSIVE SeqsUpTo(_, _)
SeqsUpTo(S, n) ==
  IF n = 0 THEN {<<>>}
  ELSE LET shorter == SeqsUpTo(S, n - 1)
       IN shorter \cup {Append(s, e) : s \in {t \in shorter : Len(t) = n - 1},
                                       e \in S}

Init ==
  /\ result = "none"
  /\ root = NoRoot
  /\ leaves = <<>>
  /\ input = <<>>
  /\ proof = <<>>
  /\ proof_elem = "a"
  /\ proof_count = 0
  /\ verified = <<>>

\* MerkleTree::new(array); after an Err the caller may call it again.
New ==
  /\ result # "Ok"
  /\ \E array \in SeqsUpTo(Elements, MaxInit) :
       LET r == new(array)
       IN /\ result' = r[1]
          /\ IF r[1] = "Ok"
             THEN root' = r[2] /\ leaves' = r[3] /\ input' = array
             ELSE UNCHANGED <<root, leaves, input>>
  /\ verified' = <<>>
  /\ UNCHANGED proofVars

\* tree.add_leaf(element)
AddLeaf ==
  /\ result = "Ok"
  /\ Len(leaves) < MaxLeaves
  /\ \E element \in Elements :
       LET r == add_leaf(leaves, element)
       IN /\ root' = r[1]
          /\ leaves' = r[2]
          /\ input' = Append(input, element)
  /\ verified' = <<>>
  /\ UNCHANGED <<result, proofVars>>

\* let proof = tree.formulate_proof_of_inclusion(data)
Prove ==
  /\ result = "Ok"
  /\ \E data \in Elements :
       /\ proof' = formulate_proof_of_inclusion(leaves, data)
       /\ proof_elem' = data
  /\ proof_count' = Len(leaves)
  /\ verified' = <<>>
  /\ UNCHANGED treeVars

\* proof.verify(tree.root(), leaf)
Verify ==
  /\ result = "Ok"
  /\ proof # <<>>
  /\ \E leaf \in Elements :
       verified' = <<leaf, verify(proof[1], root, leaf)>>
  /\ UNCHANGED <<treeVars, proofVars>>

Next == New \/ AddLeaf \/ Prove \/ Verify

Spec == Init /\ [][Next]_vars

\* The tree builder alone: construction and appends.
NextTree == New \/ AddLeaf

SpecTree == Init /\ [][NextTree]_vars

\* ----------------------------------------------------------------- helpers
Range(s) == {s[i] : i \in 1..Len(s)}

\* The held proof was asked of the tree as it is now.
Fresh == result = "Ok" /\ proof # <<>> /\ proof_count = Len(leaves)

\* The held proof was asked before a later add_leaf.
Stale == result = "Ok" /\ proof # <<>> /\ proof_count < Len(leaves)

\* Every node of every level of the tree over lvs.
RECURSIVE AllNodes(_)
AllNodes(lvs) ==
  IF Len(lvs) <= 1 THEN Range(lvs)
  ELSE Range(lvs) \cup AllNodes(calculate_next_level_of_tree(lvs))

\* The digests an outsider may put into a proof: every node of the tree, the
\* leaf hash of every element, and a value that is no hash at all.
Digests(lvs) == AllNodes(lvs) \cup {hash_leaf(e) : e \in Elements} \cup {Junk}

\* pairs with the sibling digest of pair i replaced by d.
ReplaceSibling(pairs, i, d) ==
  [k \in 1..Len(pairs) |-> IF k = i THEN <<d, pairs[k][2]>> ELSE pairs[k]]

\* The smallest k with 2^k >= n.
RECURSIVE CeilLog2From(_, _, _)
CeilLog2From(n, k, pow) ==
  IF pow >= n THEN k ELSE CeilLog2From(n, k + 1, 2 * pow)

CeilLog2(n) == CeilLog2From(n, 0, 1)

\* The largest power of two strictly below n, for n >= 2.
RECURSIVE SplitFrom(_, _)
SplitFrom(n, pow) == IF 2 * pow >= n THEN pow ELSE SplitFrom(n, 2 * pow)

\* The depth of the 0-based leaf i in the tree over n leaves: the tree over
\* n >= 2 leaves has the complete tree over the first SplitFrom(n, 1) leaves
\* on its left and the tree over the rest on its right.
RECURSIVE LeafDepth(_, _)
LeafDepth(n, i) ==
  IF n <= 1 THEN 0
  ELSE LET k == SplitFrom(n, 1)
       IN IF i < k THEN 1 + LeafDepth(k, i) ELSE 1 + LeafDepth(n - k, i - k)

\* The reduction as the specification words it, by position: node k of the
\* next level is the hash of nodes 2k-1 and 2k, or node 2k-1 itself when there
\* is no node 2k.
RECURSIVE PairwiseReduce(_)
PairwiseReduce(level) ==
  IF Len(level) = 1 THEN level[1]
  ELSE PairwiseReduce(
         [k \in 1..((Len(level) + 1) \div 2) |->
            IF 2 * k <= Len(level)
            THEN <<InternalTag, level[2 * k - 1], level[2 * k]>>
            ELSE level[2 * k - 1]])

\* ------------------------------------------------------------------ claims

\* C1: round trip. For every element of a constructed tree, duplicates and
\* elements added by add_leaf included, formulate_proof_of_inclusion returns
\* Some(proof) and proof.verify(current root, element) returns true; so a
\* proof asked of the current tree for a member is Some, and verifying it for
\* that member returns true.
RoundTrip ==
  result = "Ok" =>
    /\ \A i \in 1..Len(input) :
         LET p == formulate_proof_of_inclusion(leaves, input[i])
         IN p # <<>> /\ verify(p[1], root, input[i])
    /\ (proof_count = Len(leaves) /\ proof_elem \in Range(input))
         => proof # <<>>
    /\ (Fresh /\ verified # <<>> /\ verified[1] = proof_elem)
         => verified[2] = TRUE

\* C1 witness: a tree grown by add_leaf in which the proved element occurs
\* twice and is the last leaf, and verify has just returned true for it.
RoundTripWitness ==
  /\ Fresh
  /\ Len(input) > MaxInit
  /\ proof_elem = input[Len(input)]
  /\ \E i \in 1..(Len(input) - 1) : input[i] = proof_elem
  /\ verified = <<proof_elem, TRUE>>

\* C2: root consistency. Whenever a tree exists, after new and after every
\* add_leaf, the cached root equals calculate_merkle_root(leaves).
RootConsistent ==
  result = "Ok" => root = calculate_merkle_root(leaves)

\* C2 witness: a tree of several leaves that add_leaf has extended.
RootConsistentWitness ==
  /\ result = "Ok"
  /\ Len(leaves) > MaxInit
  /\ root = calculate_merkle_root(leaves)
  /\ root # leaves[1]

\* C3: mutation invalidation. A proof obtained for x before an add_leaf is
\* rejected against the root after it: verify(new root, x) is false.
StaleProofRejected ==
  Stale =>
    /\ ~verify(proof[1], root, proof_elem)
    /\ (verified # <<>> /\ verified[1] = proof_elem) => verified[2] = FALSE

\* C3 witness: a proof taken before an add_leaf has just been verified for
\* its element against the new root and was rejected.
StaleProofRejectedWitness ==
  /\ Stale
  /\ proof_elem \in Range(SubSeq(input, 1, proof_count))
  /\ verified = <<proof_elem, FALSE>>

\* C4 as claimed: the proof of every element of a tree of n leaves has
\* exactly ceil(log2(n)) pairs.
ProofLenIsCeilLog2 ==
  result = "Ok" =>
    \A i \in 1..Len(input) :
      Len(formulate_proof_of_inclusion(leaves, input[i])[1])
        = CeilLog2(Len(leaves))

\* C4 amended: the proof has one pair per level at which the node on the
\* path has a sibling and none for a level at which that node is the unpaired
\* trailing node; its length is the depth of the proved leaf in the tree, at
\* most ceil(log2(n)), and exactly ceil(log2(n)) when n is a power of two.
ProofLenIsLeafDepth ==
  result = "Ok" =>
    /\ \A i \in 1..Len(input) :
         LET n == Len(leaves)
             idx == position(leaves, hash_leaf(input[i]))[1]
             len == Len(formulate_proof_of_inclusion(leaves, input[i])[1])
         IN /\ len = LeafDepth(n, idx)
            /\ len <= CeilLog2(n)
            /\ (SplitFrom(n, 1) * 2 = n \/ n = 1) => len = CeilLog2(n)
    /\ (Fresh /\ proof_elem \in Range(input)) =>
         Len(proof[1]) =
           LeafDepth(Len(leaves), position(leaves, hash_leaf(proof_elem))[1])

\* C4 witness: a held proof of the promoted third leaf of three, one pair
\* long where ceil(log2(3)) is two.
ProofLenWitness ==
  /\ Fresh
  /\ Len(leaves) = 3
  /\ position(leaves, hash_leaf(proof_elem)) = <<2>>
  /\ Len(proof[1]) = 1
  /\ CeilLog2(Len(leaves)) = 2

\* C5: root reduction. The root is the level-by-level pairwise reduction of
\* the leaf hashes of the input, a trailing unpaired node promoted unchanged;
\* for one, two and three elements it is hash_leaf(x),
\* hash_internal(hash_leaf(a), hash_leaf(b)) and
\* hash_internal(hash_internal(hash_leaf(a), hash_leaf(b)), hash_leaf(c)).
RootReduction ==
  result = "Ok" =>
    LET L(i) == <<LeafTag, input[i]>>
        I(x, y) == <<InternalTag, x, y>>
    IN /\ root = PairwiseReduce([i \in 1..Len(input) |-> L(i)])
       /\ Len(input) = 1 => root = L(1)
       /\ Len(input) = 2 => root = I(L(1), L(2))
       /\ Len(input) = 3 => root = I(I(L(1), L(2)), L(3))

\* C5 witness: a tree of three distinct elements whose third leaf is promoted
\* unchanged next to the hash of the first two.
RootReductionWitness ==
  /\ result = "Ok"
  /\ Len(input) = 3
  /\ Cardinality(Range(input)) = 3
  /\ root = <<InternalTag,
              <<InternalTag, <<LeafTag, input[1]>>, <<LeafTag, input[2]>>>>,
              <<LeafTag, input[3]>>>>

\* C6: order- and length-sensitive root. Every non-empty element sequence
\* other than the tree's own (a reordering, a shorter or a longer sequence,
\* the one with the last element repeated) has a different root, and every
\* add_leaf changes the root.
RootDistinguishesInputs ==
  /\ [](result = "Ok" =>
          \A E \in SeqsUpTo(Elements, MaxLeaves) \ {<<>>} :
            E # input => calculate_merkle_root(hash_all(E)) # root)
  /\ [][(result = "Ok" /\ leaves' # leaves) => root' # root]_vars

\* C6 witness: the tree over [A, B, C, C], whose root differs from that of
\* [A, B, C].
RootDistinguishesInputsWitness ==
  /\ result = "Ok"
  /\ Len(input) = 4
  /\ input[3] = input[4]
  /\ Cardinality(Range(input)) = 3
  /\ calculate_merkle_root(hash_all(SubSeq(input, 1, 3))) # root

\* C7: tamper detection. Replacing any one sibling digest of the valid proof
\* of a member by any different digest makes verify(root, x) return false.
TamperDetected ==
  (Fresh /\ proof_elem \in Range(input)) =>
    \A i \in 1..Len(proof[1]) :
      \A d \in Digests(leaves) \ {proof[1][i][1]} :
        ~verify(ReplaceSibling(proof[1], i, d), root, proof_elem)

\* C7 witness: a valid two-pair proof has been verified, and its second
\* sibling can be replaced by another node of the tree.
TamperDetectedWitness ==
  /\ Fresh
  /\ verified = <<proof_elem, TRUE>>
  /\ Len(proof[1]) = 2
  /\ \E d \in AllNodes(leaves) : d # proof[1][2][1]

\* C8: the leaf sequence tracks the inputs in order. leaves_count() is the
\* number of elements handed to new and add_leaf, leaf_at(i) is hash_leaf of
\* the i-th of them, and an add_leaf adds one leaf, puts it last and leaves
\* every earlier leaf at its index.
LeavesTrackInput ==
  /\ [](result = "Ok" =>
          /\ Len(leaves) = Len(input)
          /\ \A i \in 1..Len(input) : leaves[i] = <<LeafTag, input[i]>>)
  /\ [][(result = "Ok" /\ leaves' # leaves) =>
          /\ Len(leaves') = Len(leaves) + 1
          /\ SubSeq(leaves', 1, Len(leaves)) = leaves
          /\ leaves'[Len(leaves')] = <<LeafTag, input'[Len(input')]>>]_vars

\* C8 witness: a tree grown by add_leaf whose last element differs from its
\* first.
LeavesTrackInputWitness ==
  /\ result = "Ok"
  /\ Len(input) > MaxInit
  /\ input[1] # input[Len(input)]
  /\ leaves[Len(leaves)] = <<LeafTag, input[Len(input)]>>

\* C9: empty input is rejected. new returns Err exactly for the empty
\* array and then there is no tree; every tree has at least one leaf and its
\* root never comes from calculate_merkle_root on an empty sequence.
EmptyInputRejected ==
  /\ \A array \in SeqsUpTo(Elements, MaxInit) :
       (new(array)[1] = "Err") <=> (Len(array) = 0)
  /\ result # "Ok" => (leaves = <<>> /\ root = NoRoot)
  /\ result = "Ok" => (Len(leaves) >= 1 /\ root # Unreachable)

\* C9 witness: new has been called with the empty array and returned Err.
EmptyInputRejectedWitness ==
  result = "Err" /\ leaves = <<>> /\ root = NoRoot

\* C10: verifier soundness. Whatever proof of at most MaxProofLen pairs over
\* Digests(leaves) is handed to verify with the tree's root, verify returns
\* true only for an element of the tree.
VerifierSound ==
  result = "Ok" =>
    \A x \in Elements : \A n \in 0..MaxProofLen :
      \A P \in [1..n -> Digests(leaves) \X {"Left", "Right"}] :
        verify(P, root, x) => x \in Range(input)

\* C10 witness: a tree without some element, for which a proof other than
\* the one formulate_proof_of_inclusion returns verifies for a member.
VerifierSoundWitness ==
  /\ result = "Ok"
  /\ Elements \ Range(input) # {}
  /\ \E x \in Range(input) : \E n \in 0..MaxProofLen :
       \E P \in [1..n -> Digests(leaves) \X {"Left", "Right"}] :
         /\ verify(P, root, x)
         /\ <<P>> # formulate_proof_of_inclusion(leaves, x)

====
